---- MODULE Spec2Model ----
(***************************************************************************)
(* A model of four view components of the desktop client:                  *)
(*   - FrameworkEventsInspector (filter state, filtered timeline),         *)
(*   - EventDetails / formatDuration (the Duration row),                   *)
(*   - PowerSearchEnumTerm (select / blur / key handlers),                 *)
(*   - the connectivity log (enableConnectivityHook, ConnectivityLogs).    *)
(* Each component has its own specification; the variables of the other    *)
(* components stay at their initial value.                                 *)
(***************************************************************************)
EXTENDS Integers, Sequences, FiniteSets

VARIABLES
    events,              \* FrameworkEventsInspector: the events prop
    filteredThreads,     \* FrameworkEventsInspector: useState<Set<string>>
    filteredEventTypes,  \* FrameworkEventsInspector: useState<Set<string>>
    chosen,              \* history: per kind, the values whose last toggle selected them
    lastOp,              \* history: the last inspector handler that ran, with its arguments
    extra,               \* what showExtra was last called with (None before the first click)
    enumLabels,          \* PowerSearchEnumTerm: the enumLabels prop
    selectValueRef,      \* PowerSearchEnumTerm: selectValueRef.current
    onChangeCalls,       \* PowerSearchEnumTerm: the arguments of the onChange calls so far
    onCancelCalls,       \* PowerSearchEnumTerm: the number of onCancel calls so far
    blurCalls,           \* PowerSearchEnumTerm: the number of currentTarget.blur() calls so far
    termOp,              \* history: the last term handler that ran, with its argument
    selections,          \* history: the number of options selected so far
    hooks,               \* number of enableConnectivityHook calls (listeners per event)
    rows,                \* the records of the shared rows data source
    selection,           \* ConnectivityLogs: useState selection
    arrived,             \* history: payloads emitted to a listener since the last clear
    logOp                \* history: the last connectivity operation, with its payload
                         \* (for a click on 'Clear logs': the selection at the click)

inspectorVars == <<events, filteredThreads, filteredEventTypes, chosen, lastOp>>

detailsVars == <<extra>>

termVars ==
    <<enumLabels, selectValueRef, onChangeCalls, onCancelCalls, blurCalls, termOp, selections>>

logVars == <<hooks, rows, selection, arrived, logOp>>

vars == <<inspectorVars, detailsVars, termVars, logVars>>

\* An optional value: None, or Some(x).
None == <<>>

Some(x) == <<x>>

\* JavaScript's undefined, where a string is expected (event.thread is optional).
Undefined == "<undefined>"

RECURSIVE SeqsUpTo(_, _)
\* All sequences over S of length at most n.
SeqsUpTo(S, n) ==
    IF n = 0 THEN {<<>>}
    ELSE LET shorter == SeqsUpTo(S, n - 1)
         IN  shorter \cup {Append(s, x) : s \in {t \in shorter : Len(t) = n - 1}, x \in S}

(***************************************************************************)
(* FrameworkEventsInspector                                                *)
(***************************************************************************)

\* Longest events list explored.
MaxEvents == 3

\* event.thread: 'main', another thread, or absent.
Threads == {"main", "bg", Undefined}

\* event.type, as its segments between frameworkEventSeparator.
EventTypes == {<<"Litho", "Layout">>, <<"Tap">>}

\* A FrameworkEvent; the timestamp is the position in the list, which makes
\* every event of a list distinguishable.
FrameworkEvent(type, thread, timestamp) ==
    [type |-> type, thread |-> thread, timestamp |-> timestamp]

EventKinds == {<<ty, th>> : ty \in EventTypes, th \in Threads}

EventLists ==
    {[i \in 1..Len(ks) |-> FrameworkEvent(ks[i][1], ks[i][2], i)] :
        ks \in SeqsUpTo(EventKinds, MaxEvents)}

\* lodash uniqBy(list, key).map(e => e[key]): the key values in order of first occurrence.
UniqBy(list, key) ==
    LET firsts == SelectSeq([i \in 1..Len(list) |-> i],
                     LAMBDA i : \A j \in 1..(i - 1) : list[j][key] # list[i][key])
    IN  [k \in 1..Len(firsts) |-> list[firsts[k]][key]]

allThreads == UniqBy(events, "thread")

allEventTypes == UniqBy(events, "type")

\* FilteredEventsOf with the thread filter left out.
FilteredEventsTypeOnly(evs, types, threads) ==
    SelectSeq(evs, LAMBDA e : Cardinality(types) = 0 \/ e.type \in types)

\* The two chained .filter calls.
FilteredEventsOf(evs, types, threads) ==
    SelectSeq(
        SelectSeq(evs, LAMBDA e : Cardinality(types) = 0 \/ e.type \in types),
        LAMBDA e : Cardinality(threads) = 0 \/ e.thread \in threads)

filteredEvents == FilteredEventsOf(events, filteredEventTypes, filteredThreads)

eventTypeToName(eventType) == eventType[Len(eventType)]

threadToColor(thread) == IF thread = "main" THEN "warningColor" ELSE "primaryColor"

\* The timeline prop handed to TimelineDataDescription.
timeline ==
    [time |-> [idx \in 1..Len(filteredEvents) |->
                  [moment  |-> filteredEvents[idx].timestamp,
                   display |-> eventTypeToName(filteredEvents[idx].type),
                   color   |-> threadToColor(filteredEvents[idx].thread),
                   key     |-> idx - 1]],
     current |-> "initialNone"]

\* The count prop of the filter Badge.
BadgeCount == Cardinality(filteredEventTypes) + Cardinality(filteredThreads)

\* Toggle whose deselect branch adds as well.
ToggleAlwaysAdds(cur, value, selected) == cur \cup {value}

\* produce(cur, draft => selected ? draft.add(value) : draft.delete(value))
Toggle(cur, value, selected) ==
    IF selected THEN cur \cup {value} ELSE cur \ {value}

NoOp == [op |-> "none", value |-> <<>>, selected |-> FALSE]

InitInspector ==
    /\ events \in EventLists
    /\ filteredThreads = {}
    /\ filteredEventTypes = {}
    /\ chosen = [kind \in {"thread", "type"} |-> {}]
    /\ lastOp = NoOp

\* The onSelect of a "By thread" item; the items exist when allThreads.length > 1.
OnSelectThread(thread, selected) ==
    /\ Len(allThreads) > 1
    /\ \E i \in 1..Len(allThreads) : allThreads[i] = thread
    /\ filteredThreads' = Toggle(filteredThreads, thread, selected)
    /\ chosen' = [chosen EXCEPT !["thread"] =
                     IF selected THEN @ \cup {thread} ELSE @ \ {thread}]
    /\ lastOp' = [op |-> "thread", value |-> <<thread>>, selected |-> selected]
    /\ UNCHANGED <<events, filteredEventTypes, detailsVars, termVars, logVars>>

\* The onSelect of a "By event type" item; the items exist when allEventTypes.length > 1.
OnSelectEventType(eventType, selected) ==
    /\ Len(allEventTypes) > 1
    /\ \E i \in 1..Len(allEventTypes) : allEventTypes[i] = eventType
    /\ filteredEventTypes' = Toggle(filteredEventTypes, eventType, selected)
    /\ chosen' = [chosen EXCEPT !["type"] =
                     IF selected THEN @ \cup {eventType} ELSE @ \ {eventType}]
    /\ lastOp' = [op |-> "type", value |-> <<eventType>>, selected |-> selected]
    /\ UNCHANGED <<events, filteredThreads, detailsVars, termVars, logVars>>

\* The events lists the parent may pass next: the node's events with one more
\* event, or the empty list of a node without events.
NextEventLists ==
    {<<>>} \cup
    {Append(events, FrameworkEvent(k[1], k[2], Len(events) + 1)) :
        k \in IF Len(events) < MaxEvents THEN EventKinds ELSE {}}

\* The parent renders the inspector again with another events prop.  The
\* filter state is kept across renders.
SetEvents(evs) ==
    /\ evs # events
    /\ events' = evs
    /\ lastOp' = [NoOp EXCEPT !.op = "events"]
    /\ UNCHANGED <<filteredThreads, filteredEventTypes, chosen, detailsVars, termVars, logVars>>

NextInspector ==
    \/ \E th \in Threads, sel \in BOOLEAN : OnSelectThread(th, sel)
    \/ \E ty \in EventTypes, sel \in BOOLEAN : OnSelectEventType(ty, sel)
    \/ \E evs \in NextEventLists : SetEvents(evs)

(***************************************************************************)
(* EventDetails and formatDuration                                         *)
(***************************************************************************)

\* Durations are explored within this distance of each threshold.
Spread == 2

\* A JavaScript number with an integral value, written millions * 10^6 + units
\* with 0 <= units < 10^6, so that 10^12 nanoseconds stay within the integers
\* the model checker computes with.
Num(millions, units) == [millions |-> millions, units |-> units]

\* n + d, for |d| < 10^6.
Shift(n, d) ==
    LET u == n.units + d
    IN  IF u < 0 THEN Num(n.millions - 1, u + 1000000)
        ELSE IF u >= 1000000 THEN Num(n.millions + 1, u - 1000000)
        ELSE Num(n.millions, u)

\* a < b
LessThan(a, b) ==
    \/ a.millions < b.millions
    \/ a.millions = b.millions /\ a.units < b.units

Zero == Num(0, 0)

\* The literals of formatDuration: 1_000, 1_000_000, 1_000_000_000,
\* 1_000_000_000_000 and 1_000_000_000 * 60.
Thousand == Num(0, 1000)

Million == Num(1, 0)

Billion == Num(1000, 0)

Trillion == Num(1000000, 0)

BillionTimes60 == Num(60000, 0)

\* The unit of formatDuration with 'minutes' from one minute on.
formatDurationMinutesFromOneMinute(nanoseconds) ==
    IF LessThan(nanoseconds, Thousand) THEN
        [number |-> nanoseconds, dividedBy |-> None, toFixed |-> None,
         unit |-> "nanoseconds"]
    ELSE IF LessThan(nanoseconds, Million) THEN
        [number |-> nanoseconds, dividedBy |-> Some(Thousand), toFixed |-> Some(2),
         unit |-> "microseconds"]
    ELSE IF LessThan(nanoseconds, Billion) THEN
        [number |-> nanoseconds, dividedBy |-> Some(Million), toFixed |-> Some(2),
         unit |-> "milliseconds"]
    ELSE IF LessThan(nanoseconds, BillionTimes60) THEN
        [number |-> nanoseconds, dividedBy |-> Some(Billion), toFixed |-> Some(2),
         unit |-> "seconds"]
    ELSE
        [number |-> nanoseconds, dividedBy |-> Some(BillionTimes60), toFixed |-> Some(2),
         unit |-> "minutes"]

\* formatDuration(nanoseconds).  The string is kept in parts: the number, what
\* it is divided by, the digits toFixed is called with, and the unit that
\* follows.  The nanoseconds branch prints the number as it is.
formatDuration(nanoseconds) ==
    IF LessThan(nanoseconds, Thousand) THEN
        [number |-> nanoseconds, dividedBy |-> None, toFixed |-> None,
         unit |-> "nanoseconds"]
    ELSE IF LessThan(nanoseconds, Million) THEN
        [number |-> nanoseconds, dividedBy |-> Some(Thousand), toFixed |-> Some(2),
         unit |-> "microseconds"]
    ELSE IF LessThan(nanoseconds, Billion) THEN
        [number |-> nanoseconds, dividedBy |-> Some(Million), toFixed |-> Some(2),
         unit |-> "milliseconds"]
    ELSE IF LessThan(nanoseconds, Trillion) THEN
        [number |-> nanoseconds, dividedBy |-> Some(Billion), toFixed |-> Some(2),
         unit |-> "seconds"]
    ELSE
        [number |-> nanoseconds, dividedBy |-> Some(BillionTimes60), toFixed |-> Some(2),
         unit |-> "minutes"]

\* JavaScript truthiness of an optional number (NaN is not among the inputs).
Truthy(duration) == duration # None /\ duration # Some(Zero)

\* event.duration: absent, or a number near 0 or near one of the thresholds.
Durations ==
    {None} \cup
    {Some(Shift(t, d)) :
        t \in {Zero, Thousand, Million, Billion, BillionTimes60, Trillion},
        d \in (0 - Spread)..Spread}

\* event.payload: absent, the empty object, or an object with one attribute.
\* An object is the set of its <<key, value>> entries.
Payloads == {None, Some({}), Some({<<"bounds", "0,0,10,10">>})}

\* event.attribution: absent, a stack trace, or a reason.
Attributions ==
    {None,
     Some([type |-> "stacktrace", stacktrace |-> <<"frame">>]),
     Some([type |-> "reason", reason |-> "layout"])}

\* The events whose details are shown: every duration with every thread, and
\* every payload and attribution with a missing and with a present duration.
DetailEvents ==
    {event \in [type : {<<"Litho", "Layout">>}, thread : Threads, timestamp : {1},
                duration : Durations, payload : Payloads, attribution : Attributions] :
        \/ event.payload = None /\ event.attribution = None
        \/ event.duration \in {None, Some(Thousand)}}

\* The node prop: a tree root, or a node without tags.
DetailNodes == {[id |-> 1, tags |-> <<"TreeRoot">>], [id |-> 2, tags |-> <<>>]}

\* Object.keys(object)
ObjectKeys(object) == {entry[1] : entry \in object}

\* One Descriptions.Item.
Item(label, content) == [label |-> label, content |-> content]

\* EventDetails: the children of Descriptions (a conditional child is there
\* when its condition is truthy), beside the stack trace of an event that is
\* attributed to one.
EventDetails(event, node, frameworkEventMetadata) ==
    [event |-> event,
     stackTrace |->
        IF event.attribution # None /\ event.attribution[1].type = "stacktrace"
        THEN Some([stacktrace |-> event.attribution[1].stacktrace, tags |-> node.tags])
        ELSE None,
     items |->
        <<Item("Event type", Some(event.type))>>
        \o (IF frameworkEventMetadata # None
            THEN <<Item("Event documentation", frameworkEventMetadata)>> ELSE <<>>)
        \o <<Item("Thread", Some([tag |-> event.thread, color |-> threadToColor(event.thread)]))>>
        \o <<Item("Timestamp", Some([formatTimestamp |-> event.timestamp]))>>
        \o (IF Truthy(event.duration)
            THEN <<Item("Duration", Some(formatDuration(event.duration[1])))>> ELSE <<>>)
        \o (IF event.payload # None /\ Cardinality(ObjectKeys(event.payload[1])) > 0
            THEN <<Item("Attributes", event.payload)>> ELSE <<>>)]

InitDetails == extra = None

\* The timeline's onClick: showExtra('Event details', <EventDetails ... />) for
\* the clicked event.
OnClickTimeline(event, node, metadata) ==
    /\ extra' = Some([title |-> "Event details",
                      element |-> EventDetails(event, node, metadata)])
    /\ UNCHANGED <<inspectorVars, termVars, logVars>>

NextDetails ==
    \E event \in DetailEvents, node \in DetailNodes,
       metadata \in {None, Some("documentation")} :
        OnClickTimeline(event, node, metadata)

(***************************************************************************)
(* PowerSearchEnumTerm                                                     *)
(***************************************************************************)

\* Calls of each kind (callbacks, blur()) explored per mounted term.
MaxTermCalls == 4

\* The keys enumLabels may have; the empty string is a key like any other.
EnumKeys == {"", "error", "warning"}

\* The keys a keydown event may carry.
Keys == {"Enter", "Escape", "ArrowDown"}

\* useMemo: Object.entries(enumLabels).map(([key, label]) => ({label, value: key}))
options == {[label |-> enumLabels[key], value |-> key] : key \in DOMAIN enumLabels}

\* !value for a string or undefined: undefined and the empty string are falsy.
Not(value) == value = Undefined \/ value = ""

InitTerm ==
    /\ enumLabels \in {[key \in keys |-> "label"] : keys \in SUBSET EnumKeys}
    /\ selectValueRef = Undefined
    /\ onChangeCalls = <<>>
    /\ onCancelCalls = 0
    /\ blurCalls = 0
    /\ termOp = [op |-> "none", arg |-> ""]
    /\ selections = 0

\* onBlur: the number of onCancel calls after the handler ran.
Blur == IF Not(selectValueRef) THEN onCancelCalls + 1 ELSE onCancelCalls

TermEventLeft == Len(onChangeCalls) + onCancelCalls < MaxTermCalls

\* The Select loses focus: the user leaves it, or the browser delivers a blur
\* event after a blur() call.
OnBlur ==
    /\ TermEventLeft
    /\ onCancelCalls' = Blur
    /\ termOp' = [op |-> "blur", arg |-> ""]
    /\ UNCHANGED <<enumLabels, selectValueRef, onChangeCalls, blurCalls, selections,
                   inspectorVars, detailsVars, logVars>>

\* An option is selected.
OnSelect(value) ==
    /\ TermEventLeft
    /\ \E o \in options : o.value = value
    /\ selectValueRef' = value
    /\ onChangeCalls' = Append(onChangeCalls, value)
    /\ termOp' = [op |-> "select", arg |-> value]
    /\ selections' = selections + 1
    /\ UNCHANGED <<enumLabels, onCancelCalls, blurCalls, inspectorVars, detailsVars, logVars>>

\* onKeyDown's condition for event.currentTarget.blur().
KeyBlurs(key) == key = "Enter" \/ key = "Escape"

\* A key goes down in the Select: Enter and Escape call blur() on the event's
\* currentTarget.  The handler calls neither callback; whether a blur event
\* (OnBlur) follows the call is the browser's doing.
OnKeyDown(key) ==
    /\ blurCalls < MaxTermCalls
    /\ blurCalls' = IF KeyBlurs(key) THEN blurCalls + 1 ELSE blurCalls
    /\ termOp' = [op |-> "key", arg |-> key]
    /\ UNCHANGED <<enumLabels, selectValueRef, onChangeCalls, onCancelCalls, selections,
                   inspectorVars, detailsVars, logVars>>

NextTerm ==
    \/ OnBlur
    \/ \E value \in EnumKeys : OnSelect(value)
    \/ \E key \in Keys : OnKeyDown(key)

(***************************************************************************)
(* Connectivity log                                                        *)
(***************************************************************************)

\* Most records explored in the rows data source.
MaxRows == 3

\* Most calls of enableConnectivityHook explored.
MaxHookCalls == 2

\* The limit option of createDataSource.
limit == 200000

\* Payloads of 'connectivity-troubleshoot-log' events.
LogEntries == [type : {"info", "error"}, message : {"m"}]

\* Payloads of 'connectivity-troubleshoot-cmd' events.
CmdEntries == [type : {"cmd"}, message : {"m"}]

\* DataSource.append(value): a full data source drops its oldest tenth first.
DataSourceAppend(records, value) ==
    IF Len(records) >= limit
    THEN Append(SubSeq(records, (limit + 9) \div 10 + 1, Len(records)), value)
    ELSE Append(records, value)

\* DataSource.clear()
DataSourceClear(records) == <<>>

\* clearMessages(): rows.clear()
clearMessages(records) == DataSourceClear(records)

\* The 'connectivity-troubleshoot-log' listener: rows.append(entry)
OnTroubleshootLog(records, entry) == DataSourceAppend(records, entry)

\* A 'connectivity-troubleshoot-cmd' listener that appends nothing.
OnTroubleshootCmdDrops(records, entry) == records

\* The 'connectivity-troubleshoot-cmd' listener: rows.append(entry)
OnTroubleshootCmd(records, entry) == DataSourceAppend(records, entry)

RECURSIVE Emit(_, _, _, _)
\* The server emits an event: each of the n listeners registered for it runs.
Emit(n, event, records, entry) ==
    IF n = 0 THEN records
    ELSE Emit(n - 1, event,
              IF event = "connectivity-troubleshoot-log"
              THEN OnTroubleshootLog(records, entry)
              ELSE OnTroubleshootCmd(records, entry),
              entry)

\* Sidebar: the inspector of the selection, or the placeholder.
Sidebar(sel) ==
    IF sel # None
    THEN [view |-> "DataInspector", data |-> sel]
    ELSE [view |-> "Placeholder", data |-> None]

InitLogs ==
    /\ hooks = 0
    /\ rows = <<>>
    /\ selection = None
    /\ arrived = <<>>
    /\ logOp = [op |-> "none", entry |-> None]

\* enableConnectivityHook(flipperServer): one more listener for each event.
enableConnectivityHook ==
    /\ hooks < MaxHookCalls
    /\ hooks' = hooks + 1
    /\ logOp' = [op |-> "hook", entry |-> None]
    /\ UNCHANGED <<rows, selection, arrived, inspectorVars, detailsVars, termVars>>

\* The server emits event with payload entry.
ServerEmits(event, entry) ==
    /\ Len(rows) + hooks <= MaxRows
    /\ rows' = Emit(hooks, event, rows, entry)
    /\ arrived' = IF hooks > 0 THEN Append(arrived, entry) ELSE arrived
    /\ logOp' = [op |-> event, entry |-> Some(entry)]
    /\ UNCHANGED <<hooks, selection, inspectorVars, detailsVars, termVars>>

\* DataTable's onSelect={setSelection}: a row of the table, or nothing.
OnSelectRow(sel) ==
    /\ sel # None => \E i \in 1..Len(rows) : rows[i] = sel[1]
    /\ selection' = sel
    /\ logOp' = [op |-> "select", entry |-> sel]
    /\ UNCHANGED <<hooks, rows, arrived, inspectorVars, detailsVars, termVars>>

\* The click handler of 'Clear logs' without setSelection(undefined).
ClearKeepsSelection ==
    /\ selection' = selection
    /\ rows' = clearMessages(rows)
    /\ arrived' = <<>>
    /\ logOp' = [op |-> "clear", entry |-> selection]
    /\ UNCHANGED <<hooks, inspectorVars, detailsVars, termVars>>

\* The click handler of 'Clear logs': setSelection(undefined); clearMessages().
OnClickClear ==
    /\ selection' = None
    /\ rows' = clearMessages(rows)
    /\ arrived' = <<>>
    /\ logOp' = [op |-> "clear", entry |-> selection]
    /\ UNCHANGED <<hooks, inspectorVars, detailsVars, termVars>>

NextLogs ==
    \/ enableConnectivityHook
    \/ \E entry \in LogEntries : ServerEmits("connectivity-troubleshoot-log", entry)
    \/ \E entry \in CmdEntries : ServerEmits("connectivity-troubleshoot-cmd", entry)
    \/ \E sel \in {None} \cup {Some(e) : e \in LogEntries \cup CmdEntries} : OnSelectRow(sel)
    \/ OnClickClear

(***************************************************************************)
(* Specifications: one per component                                       *)
(***************************************************************************)

\* A component that is not mounted: no events, no labels, nothing shown.
IdleInspector ==
    /\ events = <<>>
    /\ filteredThreads = {}
    /\ filteredEventTypes = {}
    /\ chosen = [kind \in {"thread", "type"} |-> {}]
    /\ lastOp = NoOp

IdleTerm ==
    /\ enumLabels = <<>>
    /\ selectValueRef = Undefined
    /\ onChangeCalls = <<>>
    /\ onCancelCalls = 0
    /\ blurCalls = 0
    /\ termOp = [op |-> "none", arg |-> ""]
    /\ selections = 0

InspectorInit == InitInspector /\ InitDetails /\ IdleTerm /\ InitLogs

SpecInspector == InspectorInit /\ [][NextInspector]_vars

DetailsInit == IdleInspector /\ InitDetails /\ IdleTerm /\ InitLogs

SpecDetails == DetailsInit /\ [][NextDetails]_vars

TermInit == IdleInspector /\ InitDetails /\ InitTerm /\ InitLogs

SpecTerm == TermInit /\ [][NextTerm]_vars

LogsInit == IdleInspector /\ InitDetails /\ IdleTerm /\ InitLogs

SpecLogs == LogsInit /\ [][NextLogs]_vars

\* The positions of the events that pass both filters.
Matching ==
    {i \in 1..Len(events) :
        /\ filteredEventTypes = {} \/ events[i].type \in filteredEventTypes
        /\ filteredThreads = {} \/ events[i].thread \in filteredThreads}

\* C1: the timeline shows exactly the events whose type passes the type filter
\* (empty, or containing the type) and whose thread passes the thread filter
\* (empty, or containing the thread), in the order they have in events; with
\* both filters empty it shows every event.
C1_TimelineShowsMatching ==
    LET shown == timeline.time
    IN  /\ Len(shown) = Cardinality(Matching)
        /\ \A j \in 1..Len(shown) : shown[j].moment \in Matching
        /\ \A j, k \in 1..Len(shown) : j < k => shown[j].moment < shown[k].moment
        /\ (filteredEventTypes = {} /\ filteredThreads = {}) =>
               [j \in 1..Len(shown) |-> shown[j].moment] = [i \in 1..Len(events) |-> i]

\* Both filters are set, the middle one of three events is filtered out and the
\* other two are shown in order.
C1_Witness ==
    /\ filteredEventTypes # {}
    /\ filteredThreads # {}
    /\ Len(events) = 3
    /\ Len(timeline.time) = 2
    /\ timeline.time[1].moment = 1
    /\ timeline.time[2].moment = 3

\* What one toggle of value v must do to the set it is about (before -> after).
ToggledExactly(before, after, v, selected) ==
    /\ selected => after = before \cup {v}
    /\ ~selected => after = before \ {v}
    /\ (selected /\ v \in before) => after = before
    /\ (~selected /\ v \notin before) => after = before

\* The badge shows the number of values whose last toggle selected them.
BadgeCountsSelected ==
    BadgeCount = Cardinality(chosen["type"]) + Cardinality(chosen["thread"])

\* One toggle step, as the last handler's arguments describe it.  The value of
\* a select that is then deselected again gives back the set before the
\* select: for every value (always), or for a value that was not selected.
ToggleStep(always) ==
    LET v == lastOp'.value[1]
    IN  /\ lastOp'.op = "thread" =>
              /\ ToggledExactly(filteredThreads, filteredThreads', v, lastOp'.selected)
              /\ filteredEventTypes' = filteredEventTypes
              /\ (lastOp'.selected /\ (always \/ v \notin filteredThreads)) =>
                     Toggle(filteredThreads', v, FALSE) = filteredThreads
        /\ lastOp'.op = "type" =>
              /\ ToggledExactly(filteredEventTypes, filteredEventTypes', v, lastOp'.selected)
              /\ filteredThreads' = filteredThreads
              /\ (lastOp'.selected /\ (always \/ v \notin filteredEventTypes)) =>
                     Toggle(filteredEventTypes', v, FALSE) = filteredEventTypes
        /\ BadgeCountsSelected'

\* C6 (as amended): a thread toggle adds (selected) or removes (not selected)
\* exactly that thread and leaves filteredEventTypes unchanged, and the same
\* for event types with filteredThreads; selecting a selected value or
\* deselecting an unselected one changes nothing; selecting a value that was
\* not selected and then deselecting it restores the previous set; the badge
\* count is the number of selected event types plus selected threads.
C6_ToggleFrame == [][ToggleStep(FALSE)]_vars

\* A thread has just been deselected while another thread and an event type
\* stay selected: the badge shows 2.
C6_Witness ==
    /\ lastOp.op = "thread"
    /\ ~lastOp.selected
    /\ lastOp.value[1] \notin filteredThreads
    /\ filteredThreads # {}
    /\ filteredEventTypes # {}
    /\ BadgeCount = 2

\* C6 as first stated: the same, with selecting then deselecting a value
\* restoring the previous set whatever the set was.
C6_AsStated == [][ToggleStep(TRUE)]_vars

\* The Duration items among the items shown.
DurationItems ==
    IF extra = None THEN <<>>
    ELSE SelectSeq(extra[1].element.items, LAMBDA item : item.label = "Duration")

\* C7: the unit of the Duration row follows the nanosecond value n:
\* nanoseconds below 1,000, microseconds from 1,000 and below 1,000,000,
\* milliseconds from 1,000,000 and below 1,000,000,000, seconds from
\* 1,000,000,000 and below 1,000,000,000,000, minutes (n divided by
\* 60,000,000,000) from 1,000,000,000,000 on; an event with no duration or
\* with duration 0 gets no Duration row.
C7_DurationUnitByThreshold ==
    extra # None =>
        LET d == extra[1].element.event.duration
        IN  IF d = None \/ d = Some(Num(0, 0))
            THEN DurationItems = <<>>
            ELSE /\ Len(DurationItems) = 1
                 /\ LET n == d[1]
                        text == DurationItems[1].content[1]
                        below(m, u) == LessThan(n, Num(m, u))
                    IN  /\ text.number = n
                        /\ text.unit = "nanoseconds" <=> below(0, 1000)
                        /\ text.unit = "microseconds" <=> ~below(0, 1000) /\ below(1, 0)
                        /\ text.unit = "milliseconds" <=> ~below(1, 0) /\ below(1000, 0)
                        /\ text.unit = "seconds" <=> ~below(1000, 0) /\ below(1000000, 0)
                        /\ text.unit = "minutes" <=> ~below(1000000, 0)
                        /\ text.unit = "minutes" => text.dividedBy = Some(Num(60000, 0))

\* The details of an event of exactly one minute (60,000,000,000 ns) are
\* shown, in seconds.
C7_Witness ==
    /\ extra # None
    /\ extra[1].element.event.duration = Some(Num(60000, 0))
    /\ Len(DurationItems) = 1
    /\ DurationItems[1].content[1].unit = "seconds"

\* What the three handlers of the term do: a selection calls onChange once,
\* with the selected option's key, and does not call onCancel; a blur before
\* any selection calls onCancel once and does not call onChange; Enter and
\* Escape call blur() once and no callback; any other key calls nothing.
TermHandlerEffects ==
    [][/\ termOp'.op = "select" =>
              /\ termOp'.arg \in DOMAIN enumLabels
              /\ onChangeCalls' = Append(onChangeCalls, termOp'.arg)
              /\ onCancelCalls' = onCancelCalls
       /\ (termOp'.op = "blur" /\ selections = 0) =>
              /\ onCancelCalls' = onCancelCalls + 1
              /\ onChangeCalls' = onChangeCalls
       /\ termOp'.op = "key" =>
              /\ blurCalls' = blurCalls + (IF termOp'.arg \in {"Enter", "Escape"} THEN 1 ELSE 0)
              /\ onCancelCalls' = onCancelCalls
              /\ onChangeCalls' = onChangeCalls
       /\ termOp'.op # "key" => blurCalls' = blurCalls
      ]_vars

\* C4: once onChange has been called for a selected value, no later step calls
\* onCancel, whatever keys enumLabels has (the empty string included).
C4_NoCancelAfterChange ==
    [][onChangeCalls # <<>> => onCancelCalls' = onCancelCalls]_vars

\* C3: with enableConnectivityHook called once, each
\* 'connectivity-troubleshoot-log' and 'connectivity-troubleshoot-cmd' event
\* appends exactly its payload to rows, so rows holds the payloads in the order
\* the events arrived; no other operation appends, and nothing is appended
\* before the hook is enabled.
C3_EventsAppendInOrder ==
    [][LET emitted == logOp'.op \in {"connectivity-troubleshoot-log",
                                     "connectivity-troubleshoot-cmd"}
       IN  /\ (emitted /\ hooks = 1) =>
                  /\ Len(rows') > 0
                  /\ rows'[Len(rows')] = logOp'.entry[1]
                  /\ Len(rows) < limit => rows' = Append(rows, logOp'.entry[1])
           /\ ~emitted => Len(rows') <= Len(rows)
           /\ hooks' = 0 => rows' = <<>>
           /\ (hooks' = 1 /\ Len(arrived') < limit) => rows' = arrived'
      ]_vars

\* One hook; a log, a command and another log arrived and are the three rows.
C3_Witness ==
    /\ hooks = 1
    /\ Len(rows) = 3
    /\ rows[1].type = "info"
    /\ rows[2].type = "cmd"
    /\ rows[3].type = "error"
    /\ logOp.op = "connectivity-troubleshoot-log"

\* C5: a click on 'Clear logs' sets the selection to undefined and empties
\* rows, whatever they were; the sidebar then shows the placeholder until a row
\* is selected; the entries of the next server event are the only rows.
C5_ClearResets ==
    [][LET emitted == logOp'.op \in {"connectivity-troubleshoot-log",
                                     "connectivity-troubleshoot-cmd"}
       IN  /\ logOp'.op = "clear" =>
                  /\ selection' = None
                  /\ rows' = <<>>
                  /\ Sidebar(selection').view = "Placeholder"
           /\ (Sidebar(selection).view = "Placeholder" /\ logOp'.op # "select") =>
                  Sidebar(selection').view = "Placeholder"
           /\ (logOp.op = "clear" /\ emitted) =>
                  rows' = [i \in 1..hooks |-> logOp'.entry[1]]
      ]_vars

\* 'Clear logs' was clicked while a row was selected and rows were there.
C5_Witness ==
    /\ logOp.op = "clear"
    /\ logOp.entry # None
    /\ hooks = 1
    /\ selection = None
    /\ rows = <<>>

====
